---- MODULE Spec2Model ----
(***************************************************************************)
(* A model of the note service of src/main.go: the in-memory Storage (the  *)
(* package-level id counter and note map), the REPL front-end and the HTTP *)
(* front-end.  Strings are sequences of one-character strings, so that     *)
(* strings.Split, strings.TrimSpace and strconv.Atoi are computed as the   *)
(* library computes them.                                                  *)
(*                                                                         *)
(* Three specifications share the state:                                   *)
(*   Spec      the Storage interface called with arbitrary arguments       *)
(*   ReplSpec  ReplApplication.run reading lines from standard input       *)
(*   HttpSpec  HttpApplication.run serving requests on concurrent          *)
(*             goroutines, one step per statement of the storage code      *)
(***************************************************************************)
EXTENDS Integers, Sequences, FiniteSets, TLC

VARIABLES
    id,         \* var id Id (main.go:36): the last id handed out
    noteMap,    \* var noteMap map[Id]Note (main.go:37)
    call,       \* Spec: the last Storage call and its arguments
    retNote,    \* Spec: the Note returned by the last Read/Create/Update/Delete
    retList,    \* Spec: the NoteList returned by the last ReadAll
    hist,       \* Spec: history of the calls made so far
    written,    \* Spec: per key, the name and content last written to it
    replPc,     \* ReplSpec: "awaiting", "exited" or "panicked"
    line,       \* ReplSpec: the last line read from standard input
    presented,  \* ReplSpec: what the presenter was handed for the last line
    nLines,     \* ReplSpec: number of lines read
    pc,         \* HttpSpec: per goroutine, the statement it is at
    req,        \* HttpSpec: per goroutine, the request it serves
    local,      \* HttpSpec: per goroutine, the locals newId and note, the id
                \*   Read was called with, and the note then stored under the
                \*   id the request named
    resp,       \* HttpSpec: per goroutine, the response written
    mapWriters, \* HttpSpec: goroutines inside a write of noteMap
    crashed     \* HttpSpec: the runtime threw "concurrent map ..." (process dead)

vars == <<id, noteMap, call, retNote, retList, hist, written,
          replPc, line, presented, nLines,
          pc, req, local, resp, mapWriters, crashed>>

storageVars == <<call, retNote, retList, hist, written>>
replVars    == <<replPc, line, presented, nLines>>
httpVars    == <<pc, req, local, resp, mapWriters, crashed>>

----------------------------------------------------------------------------
(* Bounds of the model *)

\* Storage calls made in one behaviour of Spec.
MaxOps == 4
\* Storage calls are made with ids 0..MaxKey.
MaxKey == 1
\* Lines read in one behaviour of ReplSpec.
MaxLines == 4
\* Requests (goroutines) in one behaviour of HttpSpec.
MaxReqs == 3

----------------------------------------------------------------------------
(* Entity *)

\* The zero value of Note: what noteMap[id] yields for an absent id.
ZeroNote == [id |-> 0, name |-> <<>>, content |-> <<>>]

\* Note{id, name, content}
Note(i, name, content) == [id |-> i, name |-> name, content |-> content]

\* m[k] of a Go map: the stored value, or the zero value.
MapGet(m, k) == IF k \in DOMAIN m THEN m[k] ELSE ZeroNote

\* m[k] = v of a Go map.
MapPut(m, k, v) == [x \in DOMAIN m \cup {k} |-> IF x = k THEN v ELSE m[x]]

\* delete(m, k) of a Go map.
MapDelete(m, k) == [x \in DOMAIN m \ {k} |-> m[x]]

----------------------------------------------------------------------------
(* InMemoryStorage.  Each operation is a function of the current globals   *)
(* and yields the new globals and the returned value.                      *)

\* Read: return noteMap[id]
Read(k) == [id |-> id, noteMap |-> noteMap, ret |-> MapGet(noteMap, k)]

\* The orders in which "for _, v := range noteMap" may visit the keys.
RangeOrders(m) ==
    {s \in [1..Cardinality(DOMAIN m) -> DOMAIN m] :
        \A i, j \in DOMAIN s : i # j => s[i] # s[j]}

\* A slip: "notes := make(NoteList, len(noteMap))" before the appends, which
\* leaves len(noteMap) zero-valued notes in front of the appended ones.
ReadAllPrealloc(order) ==
    [id |-> id, noteMap |-> noteMap,
     ret |-> [i \in DOMAIN order |-> ZeroNote] \o [i \in DOMAIN order |-> noteMap[order[i]]]]

\* ReadAll: the notes appended in the order the range visits them.
ReadAll(order) ==
    [id |-> id, noteMap |-> noteMap,
     ret |-> [i \in DOMAIN order |-> noteMap[order[i]]]]

\* A slip: the next id taken from the number of stored notes.
CreateIdFromLen == Cardinality(DOMAIN noteMap) + 1

\* newId := id + 1
CreateId == id + 1

\* Create
Create(name, content) ==
    LET newId   == CreateId
        newNote == Note(newId, name, content)
    IN  [id |-> newId, noteMap |-> MapPut(noteMap, newId, newNote), ret |-> newNote]

\* A slip: overwriting unconditionally, so that "" clears the field.
OverwriteAlways(note, name, content) ==
    [note EXCEPT !.name = name, !.content = content]

\* The body of Update between its read and its write of the map.
Overwrite(note, name, content) ==
    [note EXCEPT !.name    = IF name # <<>> THEN name ELSE @,
                 !.content = IF content # <<>> THEN content ELSE @]

\* Update
Update(k, name, content) ==
    LET note == Overwrite(MapGet(noteMap, k), name, content)
    IN  [id |-> id, noteMap |-> MapPut(noteMap, k, note), ret |-> note]

\* A slip: returning the note without deleting it.
DeleteKeeps(k) ==
    [id |-> id, noteMap |-> noteMap, ret |-> MapGet(noteMap, k)]

\* Delete
Delete(k) ==
    [id |-> id, noteMap |-> MapDelete(noteMap, k), ret |-> MapGet(noteMap, k)]

----------------------------------------------------------------------------
(* Initial state: the package-level initialisers, nothing called yet.      *)

NoCall == [op |-> "none", id |-> 0, name |-> <<>>, content |-> <<>>,
           present |-> FALSE, before |-> ZeroNote]

NoResult == [kind |-> "none", note |-> ZeroNote, notes |-> <<>>]

NoRequest == [method |-> "none", query |-> <<>>]

Procs == 1..MaxReqs

Init ==
    /\ id = 0
    /\ noteMap = <<>>
    /\ call = NoCall
    /\ retNote = ZeroNote
    /\ retList = <<>>
    /\ hist = [nOps |-> 0, nCreate |-> 0, nDelete |-> 0, lastId |-> 0,
               allHit |-> TRUE, prevOp |-> "none", prevId |-> 0, prevPresent |-> FALSE]
    /\ written = <<>>
    /\ replPc = "awaiting"
    /\ line = <<>>
    /\ presented = NoResult
    /\ nLines = 0
    /\ pc = [p \in Procs |-> "idle"]
    /\ req = [p \in Procs |-> NoRequest]
    /\ local = [p \in Procs |-> [newId |-> 0, note |-> ZeroNote, readArg |-> 0,
                                  wanted |-> ZeroNote]]
    /\ resp = [p \in Procs |-> [result |-> NoResult, body |-> <<>>]]
    /\ mapWriters = {}
    /\ crashed = FALSE

----------------------------------------------------------------------------
(* Spec: the Storage interface driven by arbitrary calls.                  *)

\* The names and contents the calls are made with; <<>> is "".
Names == {<<>>, <<"a">>}
Contents == {<<>>, <<"b">>}

\* The ids the calls are made with.
Keys == 0..MaxKey

\* The record of a call: its arguments, whether the id was stored, and the
\* note stored under it before the call.
CallOf(op, k, name, content) ==
    [op |-> op, id |-> k, name |-> name, content |-> content,
     present |-> k \in DOMAIN noteMap, before |-> MapGet(noteMap, k)]

\* The history after one more call.
Logged(c) ==
    [hist EXCEPT !.nOps = @ + 1,
                 !.prevOp = call.op, !.prevId = call.id, !.prevPresent = call.present,
                 !.nCreate = IF c.op = "Create" THEN @ + 1 ELSE @,
                 !.nDelete = IF c.op = "Delete" THEN @ + 1 ELSE @,
                 !.allHit = @ /\ (c.op \in {"Update", "Delete"} => c.present)]

StorageRead(k) ==
    /\ hist.nOps < MaxOps
    /\ LET r == Read(k) IN
        /\ id' = r.id /\ noteMap' = r.noteMap /\ retNote' = r.ret
    /\ call' = CallOf("Read", k, <<>>, <<>>)
    /\ hist' = Logged(call')
    /\ retList' = <<>>
    /\ UNCHANGED <<written, replVars, httpVars>>

StorageReadAll ==
    /\ hist.nOps < MaxOps
    /\ \E order \in RangeOrders(noteMap) :
        LET r == ReadAll(order) IN
        /\ id' = r.id /\ noteMap' = r.noteMap /\ retList' = r.ret
    /\ call' = CallOf("ReadAll", 0, <<>>, <<>>)
    /\ hist' = Logged(call')
    /\ retNote' = ZeroNote
    /\ UNCHANGED <<written, replVars, httpVars>>

StorageCreate(name, content) ==
    /\ hist.nOps < MaxOps
    /\ LET r == Create(name, content) IN
        /\ id' = r.id /\ noteMap' = r.noteMap /\ retNote' = r.ret
        /\ written' = MapPut(written, r.ret.id, [name |-> name, content |-> content])
        /\ call' = CallOf("Create", 0, name, content)
        /\ hist' = [Logged(call') EXCEPT !.lastId = r.ret.id]
    /\ retList' = <<>>
    /\ UNCHANGED <<replVars, httpVars>>

StorageUpdate(k, name, content) ==
    /\ hist.nOps < MaxOps
    /\ LET r == Update(k, name, content) IN
        /\ id' = r.id /\ noteMap' = r.noteMap /\ retNote' = r.ret
    /\ LET old == IF k \in DOMAIN written THEN written[k]
                  ELSE [name |-> <<>>, content |-> <<>>]
       IN written' = MapPut(written, k,
                        [name    |-> IF name # <<>> THEN name ELSE old.name,
                         content |-> IF content # <<>> THEN content ELSE old.content])
    /\ call' = CallOf("Update", k, name, content)
    /\ hist' = Logged(call')
    /\ retList' = <<>>
    /\ UNCHANGED <<replVars, httpVars>>

StorageDelete(k) ==
    /\ hist.nOps < MaxOps
    /\ LET r == Delete(k) IN
        /\ id' = r.id /\ noteMap' = r.noteMap /\ retNote' = r.ret
    /\ call' = CallOf("Delete", k, <<>>, <<>>)
    /\ hist' = Logged(call')
    /\ retList' = <<>>
    /\ UNCHANGED <<written, replVars, httpVars>>

Next ==
    \/ \E k \in Keys : StorageRead(k)
    \/ StorageReadAll
    \/ \E name \in Names, content \in Contents : StorageCreate(name, content)
    \/ \E k \in Keys, name \in Names, content \in Contents :
            StorageUpdate(k, name, content)
    \/ \E k \in Keys : StorageDelete(k)

Spec == Init /\ [][Next]_vars

----------------------------------------------------------------------------
(* Claims about the Storage interface, checked under Spec.                 *)

\* A step that is a Storage call of the given kind.
IsCall(op) == hist'.nOps = hist.nOps + 1 /\ call'.op = op

\* C1: the first Create returns id 1 and every later Create returns the id
\* of the previous Create plus 1, whatever Read, ReadAll, Update and Delete
\* calls were made in between; so no id is returned twice.
C1_CreateIdsSequential ==
    [][IsCall("Create") =>
          /\ retNote'.id = hist.lastId + 1
          /\ retNote'.id = hist.nCreate + 1]_vars

\* C1 witness: a second Create made after the first note was deleted got id 2.
C1_Witness ==
    /\ call.op = "Create"
    /\ hist.prevOp = "Delete" /\ hist.prevId = 1 /\ hist.prevPresent
    /\ retNote.id = 2
    /\ 1 \notin DOMAIN noteMap

\* C2: Update of a stored note with an empty name and a non-empty content
\* changes only the content; with both empty it changes nothing; with a
\* non-empty name and an empty content it changes only the name.  The id
\* field, all other entries and the id counter are untouched, and the stored
\* note is the one returned.
C2_UpdateOnlyNonEmpty ==
    [][(IsCall("Update") /\ call'.present
          /\ (call'.name = <<>> \/ call'.content = <<>>)) =>
          LET k   == call'.id
              old == noteMap[k]
          IN  /\ k \in DOMAIN noteMap'
              /\ retNote' = noteMap'[k]
              /\ noteMap'[k].id = old.id
              /\ noteMap'[k].name =
                    IF call'.name = <<>> THEN old.name ELSE call'.name
              /\ noteMap'[k].content =
                    IF call'.content = <<>> THEN old.content ELSE call'.content
              /\ DOMAIN noteMap' = DOMAIN noteMap
              /\ \A j \in DOMAIN noteMap : j # k => noteMap'[j] = noteMap[j]
              /\ id' = id]_vars

\* C2 witness: Update(1, "", "b") on a note named "a" with another content.
C2_Witness ==
    /\ call.op = "Update" /\ call.present /\ call.id = 1
    /\ call.name = <<>> /\ call.content = <<"b">>
    /\ call.before.name = <<"a">> /\ call.before.content # <<"b">>
    /\ retNote = Note(1, <<"a">>, <<"b">>)
    /\ noteMap[1] = retNote

\* C3: no two stored notes carry the same id field, and the id field of a
\* stored note never changes.
C3_IdsUniqueAndImmutable ==
    /\ [](\A j, k \in DOMAIN noteMap : j # k => noteMap[j].id # noteMap[k].id)
    /\ [][\A k \in DOMAIN noteMap \cap DOMAIN noteMap' :
             noteMap'[k].id = noteMap[k].id]_vars

\* C4: Update of an id that is not stored makes an entry bearing that id:
\* the note returned, and read back, has the given id and the incoming name
\* and content.
C4_UpdateAbsentBearsId ==
    (call.op = "Update" /\ ~call.present) =>
        /\ retNote = Note(call.id, call.name, call.content)
        /\ MapGet(noteMap, call.id) = retNote

\* Each note of the list is a stored-under-its-id note carrying the name and
\* content last written to that id, and no id occurs twice.
MatchesLastWritten(notes) ==
    /\ \A i \in DOMAIN notes :
          /\ notes[i].id \in DOMAIN written
          /\ notes[i].name = written[notes[i].id].name
          /\ notes[i].content = written[notes[i].id].content
    /\ \A i, j \in DOMAIN notes : i # j => notes[i].id # notes[j].id

C6_DeleteThenRead ==
    [][/\ IsCall("Delete") =>
            /\ retNote' = MapGet(noteMap, call'.id)
            /\ DOMAIN noteMap' = DOMAIN noteMap \ {call'.id}
            /\ \A j \in DOMAIN noteMap' : noteMap'[j] = noteMap[j]
            /\ id' = id
       /\ IsCall("Read") =>
            /\ noteMap' = noteMap /\ id' = id
            /\ retNote' = MapGet(noteMap, call'.id)
       /\ (IsCall("Read") /\ call.op = "Delete" /\ call'.id = call.id) =>
            retNote' = ZeroNote]_vars

\* C6 witness: a Read right after the Delete of a stored, non-zero note
\* returned the zero note.
C6_Witness ==
    /\ call.op = "Read" /\ retNote = ZeroNote
    /\ hist.prevOp = "Delete" /\ hist.prevId = call.id /\ hist.prevPresent
    /\ call.id = 1 /\ id >= 1

----------------------------------------------------------------------------
(* Library functions on strings.  A string is a sequence of one-character  *)
(* strings.                                                                *)

\* unicode.IsSpace, on the characters that occur in the input here.
IsSpace(c) == c \in {" ", "\t", "\n", "\r"}

\* strings.TrimSpace: leading and trailing white space removed.
TrimSpace(s) ==
    LET keep == {i \in DOMAIN s : ~IsSpace(s[i])}
    IN  IF keep = {} THEN <<>>
        ELSE LET lo == CHOOSE i \in keep : \A j \in keep : i <= j
                 hi == CHOOSE i \in keep : \A j \in keep : j <= i
             IN  SubSeq(s, lo, hi)

\* strings.Split(s, ";"): the fields between the separators; one more field
\* than there are separators.
RECURSIVE Split(_)
Split(s) ==
    LET seps == {i \in DOMAIN s : s[i] = ";"}
    IN  IF seps = {} THEN <<s>>
        ELSE LET i == CHOOSE x \in seps : \A y \in seps : x <= y
             IN  <<SubSeq(s, 1, i - 1)>> \o Split(SubSeq(s, i + 1, Len(s)))

\* The value of a decimal digit.
DigitVal(c) ==
    CASE c = "0" -> 0 [] c = "1" -> 1 [] c = "2" -> 2 [] c = "3" -> 3
      [] c = "4" -> 4 [] c = "5" -> 5 [] c = "6" -> 6 [] c = "7" -> 7
      [] c = "8" -> 8 [] c = "9" -> 9

Digits == {"0", "1", "2", "3", "4", "5", "6", "7", "8", "9"}

\* n = n*10 + digit over the digits of s.
RECURSIVE DecimalValue(_)
DecimalValue(s) ==
    IF s = <<>> THEN 0
    ELSE DecimalValue(SubSeq(s, 1, Len(s) - 1)) * 10 + DigitVal(s[Len(s)])

\* strconv.Atoi: an optional sign, then one or more decimal digits; anything
\* else is an error.  (Values of 19 digits and more, which may be out of
\* range, do not occur in the input here.)
Atoi(s) ==
    LET signed == s # <<>> /\ s[1] \in {"+", "-"}
        digits == IF signed THEN Tail(s) ELSE s
    IN  IF digits = <<>> \/ \E i \in DOMAIN digits : digits[i] \notin Digits
        THEN [ok |-> FALSE, val |-> 0]
        ELSE [ok |-> TRUE,
              val |-> IF signed /\ s[1] = "-" THEN 0 - DecimalValue(digits)
                      ELSE DecimalValue(digits)]

----------------------------------------------------------------------------
(* Use-cases: each calls one Storage method and wraps what it returns.     *)

Result(kind, note, notes) == [kind |-> kind, note |-> note, notes |-> notes]

\* What a use-case leaves behind: the globals and the result.
Executed(r, result) == [id |-> r.id, noteMap |-> r.noteMap, result |-> result]

ReadAllExecute(order) ==
    LET r == ReadAll(order) IN Executed(r, Result("ReadAll", ZeroNote, r.ret))

ReadExecute(m) ==
    LET r == Read(m.id) IN Executed(r, Result("Read", r.ret, <<>>))

CreateExecute(m) ==
    LET r == Create(m.name, m.content) IN Executed(r, Result("Create", r.ret, <<>>))

UpdateExecute(m) ==
    LET r == Update(m.id, m.name, m.content) IN Executed(r, Result("Update", r.ret, <<>>))

DeleteExecute(m) ==
    LET r == Delete(m.id) IN Executed(r, Result("Delete", r.ret, <<>>))

----------------------------------------------------------------------------
(* Parsers of the REPL.  s is the token list; s[i+1] here is s[i] of the   *)
(* code.  A parser either yields a message or panics (a failed Atoi, or an *)
(* index out of range).                                                    *)

Message(k, name, content) ==
    [ok |-> TRUE, id |-> k, name |-> name, content |-> content]

ParsePanic == [ok |-> FALSE, id |-> 0, name |-> <<>>, content |-> <<>>]

ReadAllParserFromRepl(s) == Message(0, <<>>, <<>>)

ReadParserFromRepl(s) ==
    IF Len(s) < 2 THEN ParsePanic
    ELSE LET number == Atoi(s[2])
         IN  IF ~number.ok THEN ParsePanic ELSE Message(number.val, <<>>, <<>>)

CreateParserFromRepl(s) ==
    IF Len(s) < 3 THEN ParsePanic ELSE Message(0, s[2], s[3])

UpdateParserFromRepl(s) ==
    IF Len(s) < 2 THEN ParsePanic
    ELSE LET number == Atoi(s[2])
         IN  IF ~number.ok \/ Len(s) < 4 THEN ParsePanic
             ELSE Message(number.val, s[3], s[4])

\* A parser that reads the id token, as ReadParser does.
DeleteParserParsesId(s) == ReadParserFromRepl(s)

\* DeleteParser.fromRepl: return DeleteMessage{}
DeleteParserFromRepl(s) == Message(0, <<>>, <<>>)

----------------------------------------------------------------------------
(* ReplApplication                                                         *)

KwCreate  == <<"C", "R", "E", "A", "T", "E">>
KwRead    == <<"R", "E", "A", "D">>
KwReadAll == <<"R", "E", "A", "D", "A", "L", "L">>
KwUpdate  == <<"U", "P", "D", "A", "T", "E">>
KwDelete  == <<"D", "E", "L", "E", "T", "E">>
KwExit    == <<"e", "x", "i", "t">>

\* shouldExit
ShouldExit(input) == TrimSpace(input) = KwExit

\* args := strings.Split(input, ";"), each trimmed
Args(input) == LET f == Split(input) IN [i \in DOMAIN f |-> TrimSpace(f[i])]

\* The lines standard input may deliver, each with its line end.
ReplLines ==
    { <<"C", "R", "E", "A", "T", "E", ";", "a", ";", "b", "\n">>,
      <<"C", "R", "E", "A", "T", "E", ";", " ", "a", " ", ";", "\n">>,
      <<"R", "E", "A", "D", ";", "1", "\n">>,
      <<"R", "E", "A", "D", ";", "x", "\n">>,
      <<"R", "E", "A", "D", "\n">>,
      <<"R", "E", "A", "D", "A", "L", "L", "\n">>,
      <<"U", "P", "D", "A", "T", "E", ";", "1", ";", ";", "b", "\n">>,
      <<"U", "P", "D", "A", "T", "E", ";", "0", ";", "a", ";", "\n">>,
      <<"U", "P", "D", "A", "T", "E", ";", "x", ";", "a", ";", "b", "\n">>,
      <<"U", "P", "D", "A", "T", "E", ";", "1", ";", "a", "\n">>,
      <<"D", "E", "L", "E", "T", "E", ";", "1", "\n">>,
      <<"D", "E", "L", "E", "T", "E", ";", "0", "\n">>,
      <<"D", "E", "L", "E", "T", "E", ";", "x", "\n">>,
      <<"D", "E", "L", "E", "T", "E", "\n">>,
      <<"L", "I", "S", "T", "\n">>,
      <<"e", "x", "i", "t", "\n">>,
      <<" ", "e", "x", "i", "t", "\n">>,
      <<"e", "x", "i", "t", ";", "1", "\n">> }

\* The loop reads a line and the line is processed as far as the switch.
ReplRead(input) ==
    /\ replPc = "awaiting"
    /\ nLines < MaxLines
    /\ line' = input
    /\ nLines' = nLines + 1
    /\ UNCHANGED <<storageVars, httpVars>>

\* A handler panicked: the process ends, nothing is presented.
ReplPanics ==
    /\ replPc' = "panicked"
    /\ presented' = NoResult
    /\ UNCHANGED <<id, noteMap>>

\* A handler ran its use-case and presented the result.
ReplPresents(e) ==
    /\ replPc' = "awaiting"
    /\ id' = e.id
    /\ noteMap' = e.noteMap
    /\ presented' = e.result

\* reader.ReadString fails (end of input): panic(err)
ReplEof ==
    /\ replPc = "awaiting"
    /\ nLines < MaxLines
    /\ nLines' = nLines + 1
    /\ line' = <<>>
    /\ ReplPanics
    /\ UNCHANGED <<storageVars, httpVars>>

ReplExit(input) ==
    /\ ReplRead(input)
    /\ ShouldExit(input)
    /\ replPc' = "exited"
    /\ presented' = NoResult
    /\ UNCHANGED <<id, noteMap>>

ReplHandleCreate(input) ==
    /\ ReplRead(input)
    /\ ~ShouldExit(input) /\ Args(input)[1] = KwCreate
    /\ LET message == CreateParserFromRepl(Args(input))
       IN  IF message.ok THEN ReplPresents(CreateExecute(message)) ELSE ReplPanics

ReplHandleRead(input) ==
    /\ ReplRead(input)
    /\ ~ShouldExit(input) /\ Args(input)[1] = KwRead
    /\ LET message == ReadParserFromRepl(Args(input))
       IN  IF message.ok THEN ReplPresents(ReadExecute(message)) ELSE ReplPanics

ReplHandleReadAll(input) ==
    /\ ReplRead(input)
    /\ ~ShouldExit(input) /\ Args(input)[1] = KwReadAll
    /\ LET message == ReadAllParserFromRepl(Args(input))
       IN  IF message.ok
           THEN \E order \in RangeOrders(noteMap) : ReplPresents(ReadAllExecute(order))
           ELSE ReplPanics

ReplHandleUpdate(input) ==
    /\ ReplRead(input)
    /\ ~ShouldExit(input) /\ Args(input)[1] = KwUpdate
    /\ LET message == UpdateParserFromRepl(Args(input))
       IN  IF message.ok THEN ReplPresents(UpdateExecute(message)) ELSE ReplPanics

ReplHandleDelete(input) ==
    /\ ReplRead(input)
    /\ ~ShouldExit(input) /\ Args(input)[1] = KwDelete
    /\ LET message == DeleteParserFromRepl(Args(input))
       IN  IF message.ok THEN ReplPresents(DeleteExecute(message)) ELSE ReplPanics

\* default: panic("Unknown command")
ReplUnknown(input) ==
    /\ ReplRead(input)
    /\ ~ShouldExit(input)
    /\ Args(input)[1] \notin {KwCreate, KwRead, KwReadAll, KwUpdate, KwDelete}
    /\ ReplPanics

ReplNext ==
    \/ ReplEof
    \/ \E input \in ReplLines : ReplExit(input)
    \/ \E input \in ReplLines : ReplHandleCreate(input)
    \/ \E input \in ReplLines : ReplHandleRead(input)
    \/ \E input \in ReplLines : ReplHandleReadAll(input)
    \/ \E input \in ReplLines : ReplHandleUpdate(input)
    \/ \E input \in ReplLines : ReplHandleDelete(input)
    \/ \E input \in ReplLines : ReplUnknown(input)

ReplSpec == Init /\ [][ReplNext]_vars

----------------------------------------------------------------------------
(* Claims about the REPL, checked under ReplSpec.                          *)

\* A step of the loop that read a line.
ReadsLine == nLines' = nLines + 1 /\ line' # <<>>

\* The line's keyword is one of the five commands.
KnownCommand(input) ==
    Args(input)[1] \in {KwCreate, KwRead, KwReadAll, KwUpdate, KwDelete}

\* The line has an id token and the token is not a number.
IdTokenNotNumeric(input) ==
    Len(Args(input)) >= 2 /\ ~Atoi(Args(input)[2]).ok

\* The lines C8 calls fatal: READ, UPDATE or DELETE (the commands of the
\* grammar that take an id) with an id token that is not numeric, and lines
\* whose keyword is neither a command nor exit.
FatalByClaim(input) ==
    /\ ~ShouldExit(input)
    /\ \/ Args(input)[1] \in {KwRead, KwUpdate, KwDelete} /\ IdTokenNotNumeric(input)
       \/ ~KnownCommand(input) /\ Args(input)[1] # KwExit

\* C8: such a line ends the session: nothing is presented for it, the store
\* and the counter are as before it, and no later line is dispatched.
C8_MalformedLineFatal ==
    [][/\ (ReadsLine /\ FatalByClaim(line')) =>
            /\ replPc' = "panicked"
            /\ presented' = NoResult
            /\ noteMap' = noteMap /\ id' = id
       /\ replPc # "panicked"]_vars

\* What does hold of the code: the same with DELETE left out, since
\* DeleteParser.fromRepl never looks at the id token.
ReplParseFailureFatal ==
    [][/\ (/\ ReadsLine /\ FatalByClaim(line')
           /\ Args(line')[1] # KwDelete) =>
            /\ replPc' = "panicked"
            /\ presented' = NoResult
            /\ noteMap' = noteMap /\ id' = id
       /\ replPc # "panicked"]_vars

\* C9: a DELETE line executes Delete with id 0 whatever its id token is: it
\* presents the note stored under 0, removes that entry if there is one and
\* changes nothing else; and no line at all removes a note stored under a
\* non-zero id, so every note made by CREATE stays.
C9_ReplDeleteIsDeleteZero ==
    [][/\ (ReadsLine /\ ~ShouldExit(line') /\ Args(line')[1] = KwDelete) =>
            /\ noteMap' = MapDelete(noteMap, 0)
            /\ (0 \notin DOMAIN noteMap => noteMap' = noteMap)
            /\ id' = id
            /\ presented' = Result("Delete", MapGet(noteMap, 0), <<>>)
       /\ \A k \in DOMAIN noteMap : k # 0 => k \in DOMAIN noteMap'
       /\ \A k \in 1..id' : k \in DOMAIN noteMap']_vars

\* C9 witness: the line DELETE;1 was processed while note 1 was stored, and
\* note 1 is still stored.
C9_Witness ==
    /\ replPc = "awaiting"
    /\ ~ShouldExit(line)
    /\ Args(line) = <<KwDelete, <<"1">>>>
    /\ presented.kind = "Delete"
    /\ 1 \in DOMAIN noteMap /\ noteMap[1].id = 1

----------------------------------------------------------------------------
(* HttpApplication.  net/http serves every request on a goroutine of its   *)
(* own, and the storage code takes no lock: the goroutines interleave at   *)
(* the statements of the storage methods.  A write of a Go map is not      *)
(* atomic either: while one goroutine is inside a write, another access of *)
(* the map may make the runtime throw ("concurrent map writes",            *)
(* "concurrent map read and map write"), which ends the process, or may go *)
(* unnoticed.  A panic in a handler is recovered by net/http: the request  *)
(* gets no response and the server goes on.                                *)

\* json.NewEncoder(w).Encode(o): the fields of every result struct, and of
\* Note, are unexported, so each result encodes as an empty object.
JsonEncode(result) == <<"{", "}", "\n">>

\* r.URL.Query().Get("id"): "" when the parameter is absent.
Queries == {<<>>, <<"1">>, <<"x">>}

Methods == {"GET", "POST", "PUT", "DELETE", "PATCH"}

\* ReadParser.fromHttp: return ReadMessage{}
ReadParserFromHttp(r) == Message(0, <<>>, <<>>)

\* CreateParser.fromHttp: return CreateMessage{}
CreateParserFromHttp(r) == Message(0, <<>>, <<>>)

\* UpdateParser.fromHttp: return UpdateMessage{}
UpdateParserFromHttp(r) == Message(0, <<>>, <<>>)

\* DeleteParser.fromHttp: return DeleteMessage{}
DeleteParserFromHttp(r) == Message(0, <<>>, <<>>)

\* The statement a request starts at: the switch on r.Method, and for GET
\* the test of the id parameter in handleGet.
FirstStatement(r) ==
    CASE r.method = "GET" /\ r.query = <<>>        -> "readAll"
      [] r.method = "GET" /\ ~Atoi(r.query).ok     -> "aborted"
      [] r.method = "GET" /\ Atoi(r.query).ok      -> "read"
      [] r.method = "POST"                         -> "create_newId"
      [] r.method = "PUT"                          -> "update_get"
      [] r.method = "DELETE"                       -> "delete_get"
      [] OTHER                                     -> "aborted"

\* Goroutine p is at statement at, the process is alive.
At(p, at) == ~crashed /\ pc[p] = at

Goto(p, at) == pc' = [pc EXCEPT ![p] = at]

\* present(result, w)
Responds(p, result) ==
    resp' = [resp EXCEPT ![p] = [result |-> result, body |-> JsonEncode(result)]]

\* A request arrives; requests are numbered in the order they arrive.  Only
\* handleGet looks at the query, so the other methods come without one.
HttpRequest(p, method, query) ==
    /\ At(p, "idle")
    /\ \A q \in Procs : q < p => pc[q] # "idle"
    /\ (method # "GET" => query = <<>>)
    /\ req' = [req EXCEPT ![p] = [method |-> method, query |-> query]]
    /\ Goto(p, FirstStatement(req'[p]))
    /\ UNCHANGED <<id, noteMap, local, resp, mapWriters, crashed, storageVars, replVars>>

\* handleGet without id: ReadAll ranges over the map.
HttpReadAll(p) ==
    /\ At(p, "readAll")
    /\ \E order \in RangeOrders(noteMap) : Responds(p, ReadAllExecute(order).result)
    /\ Goto(p, "done")
    /\ UNCHANGED <<id, noteMap, req, local, mapWriters, crashed, storageVars, replVars>>

\* handleGet with a numeric id: the message comes from ReadParser.fromHttp.
HttpRead(p) ==
    /\ At(p, "read")
    /\ LET message == ReadParserFromHttp(req[p])
       IN  /\ Responds(p, ReadExecute(message).result)
           /\ local' = [local EXCEPT ![p].readArg = message.id,
                           ![p].wanted = MapGet(noteMap, Atoi(req[p].query).val)]
    /\ Goto(p, "done")
    /\ UNCHANGED <<id, noteMap, req, mapWriters, crashed, storageVars, replVars>>

\* Create: newId := id + 1
HttpCreateNewId(p) ==
    /\ At(p, "create_newId")
    /\ local' = [local EXCEPT ![p].newId = CreateId]
    /\ Goto(p, "create_setId")
    /\ UNCHANGED <<id, noteMap, req, resp, mapWriters, crashed, storageVars, replVars>>

\* A variant of the counter update: id = id + 1, reading the counter again.
CounterReadAgain(p) == id + 1

\* The value Create stores in the counter: id = newId
CounterValue(p) == local[p].newId

\* Create: id = newId
HttpCreateSetId(p) ==
    /\ At(p, "create_setId")
    /\ id' = CounterValue(p)
    /\ Goto(p, "create_put")
    /\ UNCHANGED <<noteMap, req, local, resp, mapWriters, crashed, storageVars, replVars>>

\* Create: noteMap[newId] = newNote begins
HttpCreatePutBegin(p) ==
    /\ At(p, "create_put")
    /\ mapWriters' = mapWriters \cup {p}
    /\ Goto(p, "create_putting")
    /\ UNCHANGED <<id, noteMap, req, local, resp, crashed, storageVars, replVars>>

\* Create: noteMap[newId] = newNote ends; return newNote; present
HttpCreatePutEnd(p) ==
    /\ At(p, "create_putting")
    /\ LET message == CreateParserFromHttp(req[p])
           newNote == Note(local[p].newId, message.name, message.content)
       IN  /\ noteMap' = MapPut(noteMap, local[p].newId, newNote)
           /\ Responds(p, Result("Create", newNote, <<>>))
    /\ mapWriters' = mapWriters \ {p}
    /\ Goto(p, "done")
    /\ UNCHANGED <<id, req, local, crashed, storageVars, replVars>>

\* Update: note := noteMap[id], then the two tests on name and content
HttpUpdateGet(p) ==
    /\ At(p, "update_get")
    /\ LET message == UpdateParserFromHttp(req[p])
       IN  local' = [local EXCEPT ![p].note =
                        Overwrite(MapGet(noteMap, message.id), message.name, message.content)]
    /\ Goto(p, "update_put")
    /\ UNCHANGED <<id, noteMap, req, resp, mapWriters, crashed, storageVars, replVars>>

\* Update: noteMap[id] = note begins
HttpUpdatePutBegin(p) ==
    /\ At(p, "update_put")
    /\ mapWriters' = mapWriters \cup {p}
    /\ Goto(p, "update_putting")
    /\ UNCHANGED <<id, noteMap, req, local, resp, crashed, storageVars, replVars>>

\* Update: noteMap[id] = note ends; return note; present
HttpUpdatePutEnd(p) ==
    /\ At(p, "update_putting")
    /\ noteMap' = MapPut(noteMap, UpdateParserFromHttp(req[p]).id, local[p].note)
    /\ Responds(p, Result("Update", local[p].note, <<>>))
    /\ mapWriters' = mapWriters \ {p}
    /\ Goto(p, "done")
    /\ UNCHANGED <<id, req, local, crashed, storageVars, replVars>>

\* Delete: note := noteMap[id]
HttpDeleteGet(p) ==
    /\ At(p, "delete_get")
    /\ local' = [local EXCEPT ![p].note = MapGet(noteMap, DeleteParserFromHttp(req[p]).id)]
    /\ Goto(p, "delete_del")
    /\ UNCHANGED <<id, noteMap, req, resp, mapWriters, crashed, storageVars, replVars>>

\* Delete: delete(noteMap, id) begins
HttpDeleteDelBegin(p) ==
    /\ At(p, "delete_del")
    /\ mapWriters' = mapWriters \cup {p}
    /\ Goto(p, "delete_deleting")
    /\ UNCHANGED <<id, noteMap, req, local, resp, crashed, storageVars, replVars>>

\* Delete: delete(noteMap, id) ends; return note; present
HttpDeleteDelEnd(p) ==
    /\ At(p, "delete_deleting")
    /\ noteMap' = MapDelete(noteMap, DeleteParserFromHttp(req[p]).id)
    /\ Responds(p, Result("Delete", local[p].note, <<>>))
    /\ mapWriters' = mapWriters \ {p}
    /\ Goto(p, "done")
    /\ UNCHANGED <<id, req, local, crashed, storageVars, replVars>>

\* The statements that access the map.
MapAccess == {"readAll", "read", "update_get", "delete_get",
              "create_put", "update_put", "delete_del",
              "create_putting", "update_putting", "delete_deleting"}

\* The runtime notices an access of the map while another goroutine is
\* inside a write of it, and throws: the process ends.
HttpConcurrentMapFatal(p) ==
    /\ ~crashed
    /\ pc[p] \in MapAccess
    /\ mapWriters \ {p} # {}
    /\ crashed' = TRUE
    /\ UNCHANGED <<id, noteMap, pc, req, local, resp, mapWriters, storageVars, replVars>>

HttpNext ==
    \/ \E p \in Procs, method \in Methods, query \in Queries :
            HttpRequest(p, method, query)
    \/ \E p \in Procs : HttpReadAll(p)
    \/ \E p \in Procs : HttpRead(p)
    \/ \E p \in Procs : HttpCreateNewId(p)
    \/ \E p \in Procs : HttpCreateSetId(p)
    \/ \E p \in Procs : HttpCreatePutBegin(p)
    \/ \E p \in Procs : HttpCreatePutEnd(p)
    \/ \E p \in Procs : HttpUpdateGet(p)
    \/ \E p \in Procs : HttpUpdatePutBegin(p)
    \/ \E p \in Procs : HttpUpdatePutEnd(p)
    \/ \E p \in Procs : HttpDeleteGet(p)
    \/ \E p \in Procs : HttpDeleteDelBegin(p)
    \/ \E p \in Procs : HttpDeleteDelEnd(p)
    \/ \E p \in Procs : HttpConcurrentMapFatal(p)

HttpSpec == Init /\ [][HttpNext]_vars

----------------------------------------------------------------------------
(* Claims about the HTTP front-end, checked under HttpSpec.                *)

\* A GET that named a numeric id and was answered.
AnsweredGetById(p) ==
    /\ pc[p] = "done" /\ req[p].method = "GET"
    /\ req[p].query # <<>> /\ Atoi(req[p].query).ok

\* C7: a GET with a numeric id executes Read with that id, so it answers
\* with the note stored under that id (GET id=1 after one create: note 1);
\* a GET without id executes ReadAll.
C7_GetByIdReadsThatId ==
    \A p \in Procs :
        /\ AnsweredGetById(p) =>
              /\ resp[p].result.kind = "Read"
              /\ local[p].readArg = Atoi(req[p].query).val
              /\ resp[p].result.note = local[p].wanted
        /\ (pc[p] = "done" /\ req[p].method = "GET" /\ req[p].query = <<>>) =>
              resp[p].result.kind = "ReadAll"

\* The requests that called Create, and those whose Create has returned.
Creates == {p \in Procs : req[p].method = "POST"}
CreatesDone == {p \in Creates : pc[p] = "done"}
CreatedId(p) == resp[p].result.note.id

\* Two Creates that have returned with the same id.
SameIdTwice == \E p, q \in CreatesDone : p # q /\ CreatedId(p) = CreatedId(q)

\* C10: Creates that interleave can be given the same id.  Whenever that
\* has happened and all K Creates have returned, the store holds fewer than
\* K created notes and the counter is less than K; and in any case no
\* Create returns an id outside 1..K nor is the counter ever above K.
C10_CreateNotAtomic ==
    LET K == Cardinality(Creates)
    IN  /\ \A p \in CreatesDone : CreatedId(p) \in 1..K
        /\ id <= K
        /\ (SameIdTwice /\ CreatesDone = Creates) =>
              /\ Cardinality(DOMAIN noteMap \ {0}) < K
              /\ id < K

\* C10 witness: two Creates have both returned id 1; the store holds one
\* note and the counter is 1.
C10_Witness ==
    /\ ~crashed
    /\ Cardinality(Creates) = 2 /\ CreatesDone = Creates
    /\ \A p \in Creates : CreatedId(p) = 1
    /\ DOMAIN noteMap = {1}
    /\ id = 1

====
